---------------------------- MODULE Spec2Model ----------------------------
(***************************************************************************)
(* markov-text: a word-level Markov chain text generator (src/main.rs).    *)
(*                                                                         *)
(* The module models the core of the program as a state machine:           *)
(*   generate_markov_chain  the chain builder (tokenise, sliding window),  *)
(*   get_text_starter       the start-state selector,                      *)
(*   generate_text          the generation loop,                           *)
(* entered through text_command, through model_command, or called          *)
(* directly.  A Rust String is a sequence of one-character strings, so     *)
(* that split, split_whitespace, lines and join are computed, not assumed. *)
(* usize is UsizeBits wide (64 on the usual targets, scaled down here);    *)
(* an overflowing + or - panics in a build with overflow checks (debug)    *)
(* and wraps in a build without them (release).                            *)
(***************************************************************************)
EXTENDS Integers, Sequences, FiniteSets, TLC

VARIABLES
    pc,          \* the function (or loop) control is in; "done" after return
    entry,       \* the entry point called: text_command, model_command, or
                 \* generate_markov_chain / generate_text called directly
    input,       \* the text handed to generate_markov_chain (a String)
    tokens,      \* ghost: the words the text was written from
    state_size,  \* the state_size argument
    max_words,   \* the max_words argument
    input_vec,   \* generate_markov_chain: the collected words
    model,       \* the HashMap<String, Vec<String>>
    i,           \* the loop index of the running for loop
    starter,     \* generate_text: what get_text_starter returned
    output_vec,  \* generate_text: the words produced so far
    chain,       \* what generate_markov_chain returned (its Ok value is model)
    result       \* what the entry point returned

vars == <<pc, entry, input, tokens, state_size, max_words, input_vec, model,
          i, starter, output_vec, chain, result>>

-----------------------------------------------------------------------------
(* Bounds of the model. *)

UsizeBits == 4
MaxStateSize == 2
MaxWords == 3
MaxTokens == 4
MaxKeys == 2

UsizeMax == 2^UsizeBits - 1

-----------------------------------------------------------------------------
(* Characters and strings. *)

SP == " "
NL == "\n"

\* char::is_whitespace
IsWhitespace(c) == c \in {SP, NL, "\t"}

\* char::is_uppercase
IsUppercase(c) == c \in {"A", "B", "T"}

\* char::is_alphabetic
IsAlphabetic(c) == IsUppercase(c) \/ c \in {"a", "b", "c", "d", "e", "g", "h",
                                            "n", "o", "r", "s", "t"}

RECURSIVE SplitAt(_, _, _)
\* the pieces of s between occurrences of the character sep, empty pieces
\* kept, cur being the piece under construction: str::split(sep)
SplitAt(s, sep, cur) ==
    IF s = <<>> THEN <<cur>>
    ELSE IF Head(s) = sep THEN <<cur>> \o SplitAt(Tail(s), sep, <<>>)
    ELSE SplitAt(Tail(s), sep, Append(cur, Head(s)))

\* str::split(" ")
split(s, sep) == SplitAt(s, sep, <<>>)

RECURSIVE WordsOf(_, _)
\* the maximal runs of non-whitespace characters of s, cur being the run
\* under construction
WordsOf(s, cur) ==
    IF s = <<>> THEN (IF cur = <<>> THEN <<>> ELSE <<cur>>)
    ELSE IF IsWhitespace(Head(s))
         THEN (IF cur = <<>> THEN <<>> ELSE <<cur>>) \o WordsOf(Tail(s), <<>>)
    ELSE WordsOf(Tail(s), Append(cur, Head(s)))

\* str::split_whitespace
split_whitespace(s) == WordsOf(s, <<>>)

\* str::lines: the pieces between line feeds, without a last empty piece
lines(s) ==
    LET pieces == split(s, NL)
    IN  IF pieces[Len(pieces)] = <<>>
        THEN SubSeq(pieces, 1, Len(pieces) - 1)
        ELSE pieces

RECURSIVE join(_, _)
\* [String]::join(sep)
join(vec, sep) ==
    IF vec = <<>> THEN <<>>
    ELSE IF Len(vec) = 1 THEN vec[1]
    ELSE vec[1] \o sep \o join(Tail(vec), sep)

\* str::trim().is_empty()
TrimIsEmpty(s) == \A k \in 1..Len(s) : IsWhitespace(s[k])

\* slice::get(lo..hi) with lo <= hi: None (here NoSlice) when hi is past the end
NoSlice == <<"None">>
slice_get(vec, lo, hi) ==
    IF hi > Len(vec) THEN NoSlice ELSE <<"Some", SubSeq(vec, lo + 1, hi)>>

-----------------------------------------------------------------------------
(* usize arithmetic. *)

\* the outcomes of a usize + or - whose mathematical value is n: n itself in
\* range; out of range a panic (overflow checks on) or n modulo 2^UsizeBits
UsizeOutcomes(n) ==
    IF n \in 0..UsizeMax
    THEN {[panic |-> FALSE, value |-> n]}
    ELSE {[panic |-> TRUE, value |-> 0],
          [panic |-> FALSE, value |-> n % (2^UsizeBits)]}

-----------------------------------------------------------------------------
(* Results. *)

NoResult == [kind |-> "none", msg |-> "", text |-> <<>>]
Ok(text) == [kind |-> "Ok", msg |-> "", text |-> text]
Err(msg) == [kind |-> "Err", msg |-> msg, text |-> <<>>]
Panicked(msg) == [kind |-> "panic", msg |-> msg, text |-> <<>>]

-----------------------------------------------------------------------------
(* The inputs. *)

\* the words of the training texts
TextWords == {<<"A">>, <<"b">>}

\* how a text is laid out: the whitespace between, before and after its words
Layouts == {[sep |-> <<SP>>, lead |-> <<>>, trail |-> <<>>],
            [sep |-> <<SP, NL, "\t">>, lead |-> <<SP>>, trail |-> <<NL>>]}

Render(ws, lay) == lay.lead \o join(ws, lay.sep) \o lay.trail

\* "The cat sat. The dog ran. A cat ran."
ExampleWords ==
    << <<"T", "h", "e">>, <<"c", "a", "t">>, <<"s", "a", "t", ".">>,
       <<"T", "h", "e">>, <<"d", "o", "g">>, <<"r", "a", "n", ".">>,
       <<"A">>, <<"c", "a", "t">>, <<"r", "a", "n", ".">> >>

TokenSeqs == UNION {[1..n -> TextWords] : n \in 0..MaxTokens}

\* the state sizes and word limits tried: small ones, and the largest usize
StateSizes == 0..MaxStateSize \cup {UsizeMax}
WordLimits == 0..MaxWords

\* the keys and successor lists of the model files tried
KeyPool == {<<>>, <<"A">>, <<"b">>, <<"A", SP, "b">>, <<"A", SP, "A">>,
            <<"b", SP, "b">>, <<"A", SP, SP, "b">>}
SuccPool == {<<>>, << <<"b">> >>, << <<"b">>, <<"A">> >>}

EmptyModel == [k \in {} |-> <<>>]

Models == UNION {[ks -> SuccPool] :
                 ks \in {s \in SUBSET KeyPool : Cardinality(s) <= MaxKeys}}

TextEntries == {"text_command", "generate_markov_chain"}
ModelEntries == {"model_command", "generate_text"}

Init ==
    /\ entry \in TextEntries \cup ModelEntries
    /\ pc = entry
    /\ state_size \in StateSizes
    /\ max_words \in IF entry = "generate_markov_chain" THEN {0} ELSE WordLimits
    /\ IF entry \in TextEntries
       THEN /\ \/ tokens \in TokenSeqs /\ \E lay \in Layouts : input = Render(tokens, lay)
               \/ /\ entry = "generate_markov_chain"
                  /\ tokens = ExampleWords /\ input = join(tokens, <<SP>>)
            /\ model = EmptyModel
       ELSE /\ tokens = <<>> /\ input = <<>>
            /\ model \in Models
    /\ input_vec = <<>>
    /\ i = 0
    /\ starter = NoResult
    /\ output_vec = <<>>
    /\ chain = NoResult
    /\ result = NoResult

-----------------------------------------------------------------------------
(* generate_markov_chain *)

RECURSIVE Flatten(_)
Flatten(seqs) == IF seqs = <<>> THEN <<>> ELSE Head(seqs) \o Flatten(Tail(seqs))

\* "Collect Words": the non-empty words of every line, in order
CollectWords(text) ==
    LET ls == lines(text)
        ws == Flatten([k \in 1..Len(ls) |-> split_whitespace(ls[k])])
    IN  SelectSeq(ws, LAMBDA w : w # <<>>)

\* a loop body that always inserts a fresh one-word entry
Record_Overwrite(m, previous_words, current_word) ==
    [k \in DOMAIN m \cup {previous_words} |->
        IF k = previous_words THEN <<current_word>> ELSE m[k]]

\* the model after the loop body has seen previous_words followed by
\* current_word: push onto the entry, or insert a new one-word entry
Record(m, previous_words, current_word) ==
    IF previous_words \in DOMAIN m
    THEN [m EXCEPT ![previous_words] = Append(@, current_word)]
    ELSE [k \in DOMAIN m \cup {previous_words} |->
            IF k = previous_words THEN <<current_word>> ELSE m[k]]

\* generate_markov_chain returns r to its caller: text_command goes on to
\* generate_text on Ok and returns the error otherwise
ChainReturns(r) ==
    /\ chain' = r
    /\ IF entry = "text_command" /\ r.kind = "Ok"
       THEN pc' = "generate_text" /\ result' = result
       ELSE pc' = "done" /\ result' = r

\* text_command up to its call of generate_markov_chain
text_command ==
    /\ pc = "text_command"
    /\ IF TrimIsEmpty(input)
       THEN pc' = "done" /\ result' = Err("Input file is empty")
       ELSE pc' = "generate_markov_chain" /\ result' = result
    /\ UNCHANGED <<entry, input, tokens, state_size, max_words, input_vec,
                   model, i, starter, output_vec, chain>>

\* generate_markov_chain up to its for loop
generate_markov_chain ==
    /\ pc = "generate_markov_chain"
    /\ IF state_size = 0
       THEN /\ ChainReturns(Err("State size must be greater than 0"))
            /\ UNCHANGED <<input_vec, i>>
       ELSE /\ input_vec' = CollectWords(input)
            /\ \E need \in UsizeOutcomes(state_size + 1) :
                 IF need.panic
                 THEN /\ ChainReturns(Panicked("attempt to add with overflow"))
                      /\ i' = i
                 ELSE IF Len(input_vec') < need.value
                 THEN /\ ChainReturns(Err("Input text has {} words, but need at least {} words for state size {}"))
                      /\ i' = i
                 ELSE /\ pc' = "chain_loop"
                      /\ i' = state_size
                      /\ UNCHANGED <<chain, result>>
    /\ UNCHANGED <<entry, input, tokens, state_size, max_words, model, starter,
                   output_vec>>

\* one iteration of "Cook up the Markov Chain"
ChainStep ==
    /\ pc = "chain_loop"
    /\ i < Len(input_vec)
    /\ LET current_word == input_vec[i + 1]
           previous == slice_get(input_vec, i - state_size, i)
       IN  IF previous = NoSlice
           THEN /\ ChainReturns(Err("Failed to get previous words slice"))
                /\ UNCHANGED <<model, i>>
           ELSE /\ model' = Record(model, join(previous[2], <<SP>>), current_word)
                /\ i' = i + 1
                /\ UNCHANGED <<pc, chain, result>>
    /\ UNCHANGED <<entry, input, tokens, state_size, max_words, input_vec,
                   starter, output_vec>>

\* the loop is over: Ok(model)
ChainReturn ==
    /\ pc = "chain_loop"
    /\ i >= Len(input_vec)
    /\ ChainReturns(Ok(<<>>))
    /\ UNCHANGED <<entry, input, tokens, state_size, max_words, input_vec,
                   model, i, starter, output_vec>>

-----------------------------------------------------------------------------
(* get_text_starter *)

RECURSIVE OrdersOf(_)
\* the sequences that list every element of S once
OrdersOf(S) ==
    IF S = {} THEN {<<>>}
    ELSE UNION {{<<x>> \o p : p \in OrdersOf(S \ {x})} : x \in S}

\* the orders in which iterating the HashMap m can yield its keys: the order
\* depends on the map's per-process random hasher, so any order is possible
IterOrders(m) == OrdersOf(DOMAIN m)

\* "Checks for capital letters in the start of the state"
StartsCapital(s) == s # <<>> /\ IsUppercase(s[1]) /\ IsAlphabetic(s[1])

\* starters_all, the map being iterated in the given order
StartersAll(order) == SelectSeq(order, StartsCapital)

\* whether the loop over starters_all evaluates state_size - 1
EvaluatesLast(all, ss) ==
    \E k \in 1..Len(all) : Len(split_whitespace(all[k])) >= ss

\* a test that looks at the first word of the key, not at word state_size - 1
LastWordOk_FirstWord(key, ss, last) ==
    LET words == split_whitespace(key)
    IN  /\ Len(words) >= ss
        /\ words # <<>>
        /\ ~IsUppercase(words[1][1]) \/ ~IsAlphabetic(words[1][1])

\* the test that pushes the starter key onto starters_valid, last being the
\* value of state_size - 1
LastWordOk(key, ss, last) ==
    LET words == split_whitespace(key)
    IN  /\ Len(words) >= ss
        /\ last < Len(words)
        /\ words[last + 1] # <<>>
        /\ ~IsUppercase(words[last + 1][1]) \/ ~IsAlphabetic(words[last + 1][1])

\* a fallback chain that ends in a default (empty) key instead of in nothing
StartersValid_DefaultKey(m, ss, order, last) ==
    LET all == SelectSeq(order, LAMBDA s : s # <<>> /\ IsUppercase(s[1]) /\ IsAlphabetic(s[1]))
        valid == SelectSeq(all, LAMBDA s : LastWordOk(s, ss, last))
    IN  IF valid # <<>> THEN valid
        ELSE IF all # <<>> THEN all
        ELSE IF order # <<>> THEN <<order[1]>>
        ELSE << <<>> >>

\* starters_valid as it is when the starter is drawn: the filtered starters,
\* else all capital starters, else the first key the iteration yields, else
\* nothing
StartersValid(m, ss, order, last) ==
    LET all == StartersAll(order)
        valid == SelectSeq(all, LAMBDA s : LastWordOk(s, ss, last))
    IN  IF valid # <<>> THEN valid
        ELSE IF all # <<>> THEN all
        ELSE IF order # <<>> THEN <<order[1]>>
        ELSE <<>>

\* slice::choose: None on an empty slice, else any element
choose(list) ==
    IF list = <<>> THEN {<<"None">>}
    ELSE {<<"Some", list[k]>> : k \in 1..Len(list)}

\* what get_text_starter returns when the map iterates in the given order
\* (the same for the loop of line 218 and for model.iter().next(), the map
\* being unchanged in between), state_size - 1 comes out as sub, and the
\* random draw k picks a candidate
StarterResult(m, ss, order, sub, k) ==
    IF sub.panic /\ EvaluatesLast(StartersAll(order), ss)
    THEN Panicked("attempt to subtract with overflow")
    ELSE LET valid == StartersValid(m, ss, order, sub.value)
         IN  IF valid = <<>>
             THEN Err("Model is empty, cannot generate text")
             ELSE Ok(valid[((k - 1) % Len(valid)) + 1])

\* every result get_text_starter(model, state_size) can return
get_text_starter(m, ss) ==
    {StarterResult(m, ss, order, sub, k) :
        order \in IterOrders(m),
        sub \in UsizeOutcomes(ss - 1),
        k \in 1..Cardinality(DOMAIN m) + 1}

-----------------------------------------------------------------------------
(* model_command and generate_text *)

\* model_command after the model file is read and parsed into model
model_command ==
    /\ pc = "model_command"
    /\ IF DOMAIN model = {}
       THEN pc' = "done" /\ result' = Err("Model is empty")
       ELSE pc' = "generate_text" /\ result' = result
    /\ UNCHANGED <<entry, input, tokens, state_size, max_words, input_vec,
                   model, i, starter, output_vec, chain>>

\* a lookup that reports a missing key as an entry with no successors
model_get_AbsentIsEmpty(m, key) ==
    IF key \in DOMAIN m THEN <<"Some", m[key]>> ELSE <<"Some", <<>>>>

\* a lookup that reports an entry with no successors as a missing key
model_get_EmptyIsAbsent(m, key) ==
    IF key \in DOMAIN m /\ m[key] # <<>> THEN <<"Some", m[key]>> ELSE <<"None">>

\* HashMap::get
model_get(m, key) ==
    IF key \in DOMAIN m THEN <<"Some", m[key]>> ELSE <<"None">>

\* generate_text returns r
TextReturns(r) == pc' = "done" /\ result' = r

\* generate_text up to its for loop
generate_text ==
    /\ pc = "generate_text"
    /\ IF max_words = 0
       THEN /\ TextReturns(Err("Max words must be greater than 0"))
            /\ UNCHANGED <<starter, output_vec, i>>
       ELSE /\ starter' \in get_text_starter(model, state_size)
            /\ IF starter'.kind # "Ok"
               THEN /\ TextReturns(starter')
                    /\ UNCHANGED <<output_vec, i>>
               ELSE /\ output_vec' = split(starter'.text, SP)
                    /\ i' = state_size
                    /\ pc' = "text_loop"
                    /\ result' = result
    /\ UNCHANGED <<entry, input, tokens, state_size, max_words, input_vec,
                   model, chain>>

\* one iteration of "Get next state based on starter word"
TextStep ==
    /\ pc = "text_loop"
    /\ i < max_words
    /\ LET previous == slice_get(output_vec, i - state_size, i)
       IN  IF previous = NoSlice
           THEN /\ TextReturns(Err("Failed to get previous words slice"))
                /\ UNCHANGED <<output_vec, i>>
           ELSE LET found == model_get(model, join(previous[2], <<SP>>))
                IN  IF found = <<"None">>
                    THEN /\ TextReturns(Ok(join(output_vec, <<SP>>)))
                         /\ UNCHANGED <<output_vec, i>>
                    ELSE \E chosen \in choose(found[2]) :
                           IF chosen = <<"None">>
                           THEN /\ TextReturns(Err("No words available for current state"))
                                /\ UNCHANGED <<output_vec, i>>
                           ELSE /\ output_vec' = Append(output_vec, chosen[2])
                                /\ i' = i + 1
                                /\ UNCHANGED <<pc, result>>
    /\ UNCHANGED <<entry, input, tokens, state_size, max_words, input_vec,
                   model, starter, chain>>

\* the loop is over: Ok(output_vec.join(" "))
TextReturn ==
    /\ pc = "text_loop"
    /\ i >= max_words
    /\ TextReturns(Ok(join(output_vec, <<SP>>)))
    /\ UNCHANGED <<entry, input, tokens, state_size, max_words, input_vec,
                   model, i, starter, output_vec, chain>>

-----------------------------------------------------------------------------

Next ==
    \/ text_command
    \/ generate_markov_chain
    \/ ChainStep
    \/ ChainReturn
    \/ model_command
    \/ generate_text
    \/ TextStep
    \/ TextReturn

Spec == Init /\ [][Next]_vars

-----------------------------------------------------------------------------
(* What has happened in a run. *)

\* generate_markov_chain has returned
ChainReturned == chain.kind # "none"

\* the run calls generate_text: directly, from model_command once the model
\* is known not to be empty, or from text_command once the chain is built
TextCalled ==
    \/ entry = "generate_text"
    \/ entry = "model_command" /\ DOMAIN model # {}
    \/ entry = "text_command" /\ chain.kind = "Ok"

\* generate_text has returned
TextReturned == pc = "done" /\ TextCalled

\* the state the generation loop looks up at index idx: output[idx-ss..idx]
\* joined by one space (defined when the slice is in range)
CurrentState(vec, idx, ss) == join(SubSeq(vec, idx - ss + 1, idx), <<SP>>)

\* the elements of a list
Elems(list) == {list[k] : k \in 1..Len(list)}

-----------------------------------------------------------------------------
(* The chain builder: C4, C7. *)

\* the window of ss tokens that ends before index idx (counted from 0)
Window(ts, ss, idx) == join(SubSeq(ts, idx - ss + 1, idx), <<SP>>)

\* the tokens that follow the windows equal to s, in text order
Followers(ts, ss, s) ==
    LET at == SelectSeq([k \in 1..Len(ts) |-> k - 1],
                        LAMBDA idx : idx >= ss /\ Window(ts, ss, idx) = s)
    IN  [k \in 1..Len(at) |-> ts[at[k] + 1]]

\* the sliding-window reference model of a token sequence
SlidingWindow(ts, ss) ==
    [s \in {Window(ts, ss, idx) : idx \in ss..Len(ts) - 1} |-> Followers(ts, ss, s)]

\* C4: for every token sequence with state_size >= 1 and at least
\* state_size + 1 tokens, generate_markov_chain succeeds and the model it
\* returns is the sliding-window reference: its keys are exactly the windows
\* of state_size tokens that have a follower, and each key's list is exactly
\* the followers of its windows, duplicates kept.
C4_SlidingWindowModel ==
    (ChainReturned /\ state_size >= 1 /\ Len(tokens) >= state_size + 1)
        => /\ chain.kind = "Ok"
           /\ model = SlidingWindow(tokens, state_size)

\* C4's case: the corpus "The cat sat. The dog ran. A cat ran." is built
\* with state_size 1, and "The" is followed by cat and dog, "cat" by sat.
\* and ran.
C4_Witness ==
    /\ chain.kind = "Ok"
    /\ tokens = ExampleWords
    /\ state_size = 1
    /\ model[<<"T", "h", "e">>] = << <<"c", "a", "t">>, <<"d", "o", "g">> >>
    /\ model[<<"c", "a", "t">>] = << <<"s", "a", "t", ".">>, <<"r", "a", "n", ".">> >>

\* C7: generate_markov_chain fails exactly when it should: with state_size 0
\* always (invalid configuration); with state_size >= 1 with the
\* insufficient-data error if and only if the text has fewer than
\* state_size + 1 whitespace-delimited tokens, and otherwise it returns Ok.
C7_BuildFailsExactly ==
    ChainReturned =>
        IF state_size = 0
        THEN chain = Err("State size must be greater than 0")
        ELSE IF Len(tokens) < state_size + 1
        THEN chain = Err("Input text has {} words, but need at least {} words for state size {}")
        ELSE chain.kind = "Ok"

-----------------------------------------------------------------------------
(* The start-state selector: C5, C9. *)

\* the keys that start with an uppercase alphabetic character
CapitalKeys(m) ==
    {key \in DOMAIN m :
        key # <<>> /\ IsUppercase(key[1]) /\ IsAlphabetic(key[1])}

\* the capital keys whose word at position ss - 1 (counted from 0) exists and
\* does not start with an uppercase alphabetic character
PreferredKeys(m, ss) ==
    {key \in CapitalKeys(m) :
        LET words == split_whitespace(key)
        IN  /\ 1 <= ss
            /\ ss <= Len(words)
            /\ ~(IsUppercase(words[ss][1]) /\ IsAlphabetic(words[ss][1]))}

\* C5: get_text_starter follows the fallback chain in order: it returns a
\* preferred key if there is one, else a capital key if there is one, else
\* some key of the model; every state it returns is a key of the model; and
\* it returns an error (the empty-model error) exactly when the model has no
\* entries.
C5_FallbackChain ==
    /\ starter.kind = "Ok" =>
          /\ starter.text \in DOMAIN model
          /\ PreferredKeys(model, state_size) # {}
                => starter.text \in PreferredKeys(model, state_size)
          /\ CapitalKeys(model) # {} => starter.text \in CapitalKeys(model)
    /\ starter.kind = "Err" =>
          /\ DOMAIN model = {}
          /\ starter = Err("Model is empty, cannot generate text")
    /\ (starter.kind # "none" /\ DOMAIN model = {}) => starter.kind = "Err"

\* C5's case: the model holds a preferred key and a capital key that is not
\* preferred, and get_text_starter has returned a state
C5_Witness ==
    /\ starter.kind = "Ok"
    /\ PreferredKeys(model, state_size) # {}
    /\ CapitalKeys(model) \ PreferredKeys(model, state_size) # {}

\* C9: determinism (for a state_size >= 1).  The start state a run got is the one every run on the
\* same model and state_size gets from the same random draw: whenever some
\* iteration order of the map makes draw k return the run's start state,
\* every iteration order does.  (The output begins with the start state, so
\* two runs that differ in it differ in their output.)
C9_SameDrawSameStarter ==
    (starter.kind = "Ok" /\ state_size >= 1) =>
        \A sub \in UsizeOutcomes(state_size - 1) :
        \A k \in 1..Cardinality(DOMAIN model) + 1 :
            (\E order \in IterOrders(model) :
                StarterResult(model, state_size, order, sub, k) = starter)
            => (\A order \in IterOrders(model) :
                StarterResult(model, state_size, order, sub, k) = starter)

-----------------------------------------------------------------------------
(* The generator: C1, C2, C3, C6, C8, C10. *)

\* C1: for a non-empty model, state_size >= 1 and max_words >= 1, a
\* successful generate_text returns at least state_size and at most max_words
\* space-separated tokens.
C1_OutputLength ==
    (/\ TextReturned /\ result.kind = "Ok"
     /\ DOMAIN model # {} /\ state_size >= 1 /\ max_words >= 1)
        => LET n == Len(split(result.text, SP))
           IN  state_size <= n /\ n <= max_words

\* the loop is about to look up a state that is a key with no successors
AtEmptyEntry ==
    /\ pc = "text_loop" /\ i < max_words /\ i <= Len(output_vec)
    /\ CurrentState(output_vec, i, state_size) \in DOMAIN model
    /\ model[CurrentState(output_vec, i, state_size)] = <<>>

\* the loop is about to look up a state that has no entry in the model
AtDeadEnd ==
    /\ pc = "text_loop" /\ i < max_words /\ i <= Len(output_vec)
    /\ CurrentState(output_vec, i, state_size) \notin DOMAIN model

\* C2 as claimed: when the current state is a key whose successor list is
\* empty, generation stops at once and generate_text returns success with the
\* tokens produced so far.
C2_EmptyEntryStopsOk ==
    [][AtEmptyEntry =>
          /\ pc' = "done"
          /\ result' = Ok(join(output_vec, <<SP>>))]_vars

\* C2 as amended: when the current state is a key whose successor list is
\* empty, generation stops at once, no token is appended, and generate_text
\* returns the error "No words available for current state" and no text.
C2_EmptyEntryStopsErr ==
    [][AtEmptyEntry =>
          /\ pc' = "done"
          /\ output_vec' = output_vec
          /\ result' = Err("No words available for current state")]_vars

\* C2's case: the loop has stopped at a key with an empty successor list
C2_Witness ==
    /\ pc = "done" /\ output_vec # <<>> /\ i < max_words /\ i <= Len(output_vec)
    /\ CurrentState(output_vec, i, state_size) \in DOMAIN model
    /\ model[CurrentState(output_vec, i, state_size)] = <<>>
    /\ result = Err("No words available for current state")

\* the start key has exactly state_size space-separated tokens
StarterFits == Len(split(starter.text, SP)) = state_size

C6_NoFault ==
    /\ starter.kind # "panic"
    /\ TextReturned => result.kind \in {"Ok", "Err"}

\* C8 as claimed: generate_text with max_words = 0 fails with the
\* invalid-configuration error before a start state is selected, and
\* generate_text on a model with no entries fails with the empty-model error.
C8_ZeroAndEmptyFail ==
    TextReturned =>
        /\ max_words = 0 =>
              /\ result = Err("Max words must be greater than 0")
              /\ starter = NoResult
        /\ DOMAIN model = {} =>
              result = Err("Model is empty, cannot generate text")

\* C8 as amended: generate_text with max_words = 0 fails with the
\* invalid-configuration error, for every model (the empty one too) and
\* state_size, before a start state is selected; and generate_text with
\* max_words >= 1 on a model with no entries fails with the empty-model
\* error raised by get_text_starter, and returns no text.
C8_ZeroThenEmptyFail ==
    TextReturned =>
        /\ max_words = 0 =>
              /\ result = Err("Max words must be greater than 0")
              /\ starter = NoResult
        /\ (DOMAIN model = {} /\ max_words >= 1) =>
              /\ result = Err("Model is empty, cannot generate text")
              /\ starter = result

\* C8's case: generate_text has run on a model with no entries
C8_Witness ==
    /\ TextReturned
    /\ DOMAIN model = {}
    /\ max_words >= 1
    /\ result = Err("Model is empty, cannot generate text")

\* C10 (for a state_size >= 1): the generated text is a walk in the model:
\* the output starts with the space-split of a key of the model, and at every
\* step of the loop and in the final output each token at index
\* idx >= state_size is an element of
\* model[join(output[idx-state_size..idx], " ")].
C10_WalkInModel ==
    (starter.kind = "Ok" /\ state_size >= 1 /\ (pc = "done" => result.kind = "Ok")) =>
        /\ starter.text \in DOMAIN model
        /\ split(starter.text, SP) = SubSeq(output_vec, 1, Len(split(starter.text, SP)))
        /\ \A idx \in state_size..Len(output_vec) - 1 :
              /\ CurrentState(output_vec, idx, state_size) \in DOMAIN model
              /\ output_vec[idx + 1]
                    \in Elems(model[CurrentState(output_vec, idx, state_size)])

=============================================================================
